---------------------------- MODULE Spec2Model ----------------------------
(***************************************************************************)
(* Model of the eversaid wrapper backend: the multi-tier rate limiter      *)
(* (backend/app/rate_limit.py), the two rate-limited endpoints             *)
(* (backend/app/routes/core.py) and the rows they read and write           *)
(* (backend/app/models.py).                                                *)
(*                                                                         *)
(* Time is the value datetime.utcnow() returns, in whole seconds.  The     *)
(* clock never runs backwards, and two reads may return the same value.    *)
(* Requests are coroutines on one event loop: a step of the model is the   *)
(* code a request runs between two awaits.                                 *)
(***************************************************************************)
EXTENDS Integers, Sequences, FiniteSets, Bags, TLC

(***************************************************************************)
(* Bounds of the model.                                                    *)
(***************************************************************************)
\* request slots served concurrently
NReq == 2
\* rate limit entries committed in one behaviour
MaxEntries == 2
\* clock advances in one behaviour
MaxTicks == 2

Reqs == 1..NReq

\* get_or_create_session calls served concurrently
NCalls == 2
\* uuid4 values and token pairs generated in one behaviour
MaxIssued == 2
\* clock advances in one behaviour of the session manager
MaxSessionTicks == 2

Calls == 1..NCalls

(***************************************************************************)
(* Values.                                                                 *)
(***************************************************************************)
\* Python's None, for the nullable string columns and Optional[str] fields
None == "None"

\* the sessions that send requests, and the addresses they are sent from
SessionIds == {"s1", "s2"}
IPs == {"ip1", "ip2"}
Actions == {"transcribe", "analyze"}
Tiers == {"hour", "day", "ip_day", "global_day"}

\* timedelta(hours=1) and timedelta(days=1), in seconds
HOUR == 3600
DAY == 86400

\* Settings of the rate limit tests (tests/test_rate_limit.py, rate_limit_settings)
RATE_LIMIT_HOUR == 2
RATE_LIMIT_DAY == 3
RATE_LIMIT_IP_DAY == 4
RATE_LIMIT_GLOBAL_DAY == 5
\* LLM limits: higher than the transcribe limits, scaled down to the model
RATE_LIMIT_LLM_HOUR == 3
RATE_LIMIT_LLM_DAY == 4
RATE_LIMIT_LLM_IP_DAY == 5
RATE_LIMIT_LLM_GLOBAL_DAY == 6

\* the steps the clock advances by: one hour, and the rest of a day
TickSteps == {HOUR, DAY - HOUR}

\* the steps the clock of the session manager advances by: to the start of a
\* token's last hour, to the last second of a session, and one second
SessionTickSteps == {7 * DAY - HOUR, 7 * DAY, 1}

\* session.py: TOKEN_EXPIRY_DAYS and TOKEN_REFRESH_THRESHOLD_HOURS; config.py:
\* SESSION_DURATION_DAYS
TOKEN_EXPIRY_DAYS == 7
TOKEN_REFRESH_THRESHOLD_HOURS == 1
SESSION_DURATION_DAYS == 7

VARIABLES
    now,        \* the value of datetime.utcnow()
    ticks,      \* how often the clock has advanced
    sessions,   \* table sessions: session_id -> row
    ledger,     \* table rate_limit_entries: the bag of committed rows
    pc,         \* per request slot: "idle", or "upstream" (awaiting the Core API)
    req,        \* per request slot: the request in it
    result,     \* per request slot: request.state.rate_limit_result
    lastCheck,  \* history: the latest check_and_increment call and what it returned
    response,   \* history: the latest response sent
    calls,      \* per call slot: the get_or_create_session call in it
    issued,     \* how many uuid4 values and token pairs have been generated
    lastReturn  \* history: the latest get_or_create_session call that ended

\* the state of the rate limiter and its endpoints, and of the session manager
limiter_vars == <<ledger, pc, req, result, lastCheck, response>>
session_vars == <<calls, issued, lastReturn>>

vars == <<now, ticks, sessions, limiter_vars, session_vars>>

(***************************************************************************)
(* RateLimitTracker                                                        *)
(***************************************************************************)

\* RateLimitEntry(session_id, ip_address, action), created_at = utcnow at the flush
RateLimitEntry(session_id, ip_address, action, created_at) ==
    [session_id |-> session_id, ip_address |-> ip_address,
     action |-> action, created_at |-> created_at]

\* _get_limits: (hour_limit, day_limit, ip_day_limit, global_day_limit)
get_limits(action) ==
    IF action = "analyze"
    THEN <<RATE_LIMIT_LLM_HOUR, RATE_LIMIT_LLM_DAY,
           RATE_LIMIT_LLM_IP_DAY, RATE_LIMIT_LLM_GLOBAL_DAY>>
    ELSE <<RATE_LIMIT_HOUR, RATE_LIMIT_DAY,
           RATE_LIMIT_IP_DAY, RATE_LIMIT_GLOBAL_DAY>>

\* variant: the session filter is not applied
entry_matches_any_session(e, action, since, session_id, ip_address) ==
    /\ e.action = action
    /\ e.created_at >= since
    /\ (ip_address # None => e.ip_address = ip_address)

\* variant: the action filter is not applied
entry_matches_any_action(e, action, since, session_id, ip_address) ==
    /\ e.created_at >= since
    /\ (session_id # None => e.session_id = session_id)
    /\ (ip_address # None => e.ip_address = ip_address)

\* the filter of a counting query: action, created_at >= since, and the session
\* and IP filters when the argument is given
entry_matches(e, action, since, session_id, ip_address) ==
    /\ e.action = action
    /\ e.created_at >= since
    /\ (session_id # None => e.session_id = session_id)
    /\ (ip_address # None => e.ip_address = ip_address)

\* the entries of the requests that await the Core API in slots 1..n
RECURSIVE staged_rows(_)
staged_rows(n) ==
    IF n = 0 THEN EmptyBag
    ELSE staged_rows(n - 1) (+)
         (IF pc[n] = "upstream"
          THEN SetToBag({RateLimitEntry(req[n].session_id, req[n].ip_address,
                                        req[n].action, req[n].at)})
          ELSE EmptyBag)

\* variant: the count does not see the entry of a request until it is answered
count_entries_of_answered(db, action, since, session_id, ip_address) ==
    LET seen == db (-) staged_rows(NReq)
        kept == {e \in BagToSet(seen) :
                    entry_matches(e, action, since, session_id, ip_address)}
    IN  BagCardinality([e \in kept |-> seen[e]])

\* variant: the count sees the entries of the requests in flight a second time,
\* as staged rows beside the committed ones
count_entries_with_staged(db, action, since, session_id, ip_address) ==
    LET seen == db (+) staged_rows(NReq)
        kept == {e \in BagToSet(seen) :
                    entry_matches(e, action, since, session_id, ip_address)}
    IN  BagCardinality([e \in kept |-> seen[e]])

\* _count_entries: func.count over the rows the filter keeps
count_entries(db, action, since, session_id, ip_address) ==
    LET kept == {e \in BagToSet(db) :
                    entry_matches(e, action, since, session_id, ip_address)}
    IN  BagCardinality([e \in kept |-> db[e]])

Max(a, b) == IF a >= b THEN a ELSE b

LimitInfo(limit, remaining, reset) ==
    [limit |-> limit, remaining |-> remaining, reset |-> reset]

\* variant: a tier is exceeded only when its count is above its limit
tier_exceeded_above(count, limit) == count > limit

\* a tier is exceeded when its count has reached its limit
tier_exceeded(count, limit) == count >= limit

\* list.sort(key=lambda x: x[1], reverse=True): descending by wait, and stable
RECURSIVE insert_desc(_, _)
insert_desc(x, s) ==
    IF s = <<>> THEN <<x>>
    ELSE IF Head(s)[2] >= x[2] THEN <<Head(s)>> \o insert_desc(x, Tail(s))
    ELSE <<x>> \o s

\* variant: the list is left in the order the tiers were tested
not_sorted(s) == s

\* variant: a descending sort that puts the later of two equal waits first
RECURSIVE sort_desc_later_first(_)
sort_desc_later_first(s) ==
    IF s = <<>> THEN <<>>
    ELSE LET rest == sort_desc_later_first(SubSeq(s, 1, Len(s) - 1))
             x == s[Len(s)]
             ahead == SelectSeq(rest, LAMBDA y : y[2] > x[2])
             behind == SelectSeq(rest, LAMBDA y : y[2] <= x[2])
         IN  ahead \o <<x>> \o behind

RECURSIVE sort_desc(_)
sort_desc(s) ==
    IF s = <<>> THEN <<>>
    ELSE insert_desc(s[Len(s)], sort_desc(SubSeq(s, 1, Len(s) - 1)))

\* variant: only the two session tiers are tested
exceeded_list_session_tiers(counts, limits, hour_wait, day_wait) ==
    (IF tier_exceeded(counts[1], limits[1]) THEN <<(<<"hour", hour_wait>>)>> ELSE <<>>)
    \o (IF tier_exceeded(counts[2], limits[2]) THEN <<(<<"day", day_wait>>)>> ELSE <<>>)

\* the list `exceeded`, in the order the tiers are tested
exceeded_list(counts, limits, hour_wait, day_wait) ==
    (IF tier_exceeded(counts[1], limits[1]) THEN <<(<<"hour", hour_wait>>)>> ELSE <<>>)
    \o (IF tier_exceeded(counts[2], limits[2]) THEN <<(<<"day", day_wait>>)>> ELSE <<>>)
    \o (IF tier_exceeded(counts[3], limits[3]) THEN <<(<<"ip_day", day_wait>>)>> ELSE <<>>)
    \o (IF tier_exceeded(counts[4], limits[4]) THEN <<(<<"global_day", day_wait>>)>> ELSE <<>>)

\* variant: the IP tier counts only the rows of the checked session
tier_counts_ip_of_session(db, t, session_id, ip_address, action) ==
    <<count_entries(db, action, t - HOUR, session_id, None),
      count_entries(db, action, t - DAY, session_id, None),
      count_entries(db, action, t - DAY, session_id, ip_address),
      count_entries(db, action, t - DAY, None, None)>>

\* variant: the global tier counts only the rows of the checked IP address
tier_counts_global_of_ip(db, t, session_id, ip_address, action) ==
    <<count_entries(db, action, t - HOUR, session_id, None),
      count_entries(db, action, t - DAY, session_id, None),
      count_entries(db, action, t - DAY, None, ip_address),
      count_entries(db, action, t - DAY, None, ip_address)>>

\* the four counts check_and_increment takes at time t
tier_counts(db, t, session_id, ip_address, action) ==
    <<count_entries(db, action, t - HOUR, session_id, None),
      count_entries(db, action, t - DAY, session_id, None),
      count_entries(db, action, t - DAY, None, ip_address),
      count_entries(db, action, t - DAY, None, None)>>

\* variant: the hour tier resets at the time of the check
hour_reset_at_once(t) == t

\* the reset of the hour tier
hour_reset_at(t) == t + HOUR

\* variant: the day tiers reset when the hour tier does
day_reset_with_hour(t) == hour_reset_at(t)

\* the reset of the three day tiers
day_reset_at(t) == t + DAY

\* variant: remaining is reported as it was before the entry was added
not_decremented(info) == info

\* remaining after the entry of an allowed check was added
decremented(info) == [info EXCEPT !.remaining = Max(0, info.remaining - 1)]

\* variant: the result of an allowed check names the hour tier and its wait
check_and_increment_wait_on_allowed(db, t, session_id, ip_address, action) ==
    LET limits == get_limits(action)
        counts == tier_counts(db, t, session_id, ip_address, action)
        hour_reset == hour_reset_at(t)
        day_reset == day_reset_at(t)
        now_ts == t
        hour_info == LimitInfo(limits[1], Max(0, limits[1] - counts[1]), hour_reset)
        day_info == LimitInfo(limits[2], Max(0, limits[2] - counts[2]), day_reset)
        ip_day_info == LimitInfo(limits[3], Max(0, limits[3] - counts[3]), day_reset)
        global_day_info == LimitInfo(limits[4], Max(0, limits[4] - counts[4]), day_reset)
        exceeded == exceeded_list(counts, limits, hour_reset - now_ts, day_reset - now_ts)
        sorted == sort_desc(exceeded)
    IN  IF exceeded # <<>>
        THEN [allowed |-> FALSE,
              hour |-> hour_info, day |-> day_info,
              ip_day |-> ip_day_info, global_day |-> global_day_info,
              exceeded_type |-> sorted[1][1], retry_after |-> {sorted[1][2]}]
        ELSE [allowed |-> TRUE,
              hour |-> decremented(hour_info), day |-> decremented(day_info),
              ip_day |-> decremented(ip_day_info),
              global_day |-> decremented(global_day_info),
              exceeded_type |-> "hour", retry_after |-> {hour_reset - now_ts}]

\* check_and_increment: the RateLimitResult.  retry_after is Optional[int]:
\* {} is None and {n} is n.  The entry of an allowed check is added by the caller
\* of this operator (add_entry below).
check_and_increment(db, t, session_id, ip_address, action) ==
    LET limits == get_limits(action)
        counts == tier_counts(db, t, session_id, ip_address, action)
        hour_reset == hour_reset_at(t)
        day_reset == day_reset_at(t)
        now_ts == t
        hour_info == LimitInfo(limits[1], Max(0, limits[1] - counts[1]), hour_reset)
        day_info == LimitInfo(limits[2], Max(0, limits[2] - counts[2]), day_reset)
        ip_day_info == LimitInfo(limits[3], Max(0, limits[3] - counts[3]), day_reset)
        global_day_info == LimitInfo(limits[4], Max(0, limits[4] - counts[4]), day_reset)
        exceeded == exceeded_list(counts, limits, hour_reset - now_ts, day_reset - now_ts)
        sorted == sort_desc(exceeded)
    IN  IF exceeded # <<>>
        THEN [allowed |-> FALSE,
              hour |-> hour_info, day |-> day_info,
              ip_day |-> ip_day_info, global_day |-> global_day_info,
              exceeded_type |-> sorted[1][1], retry_after |-> {sorted[1][2]}]
        ELSE [allowed |-> TRUE,
              hour |-> decremented(hour_info), day |-> decremented(day_info),
              ip_day |-> decremented(ip_day_info),
              global_day |-> decremented(global_day_info),
              exceeded_type |-> None, retry_after |-> {}]

\* variant: the entry of an allowed check is not committed
add_entry_not_committed(db, t, session_id, ip_address, action) == db

\* variant: rows that have left the day window are deleted with the insert
add_entry_pruning(db, t, session_id, ip_address, action) ==
    LET kept == {e \in BagToSet(db) : e.created_at >= t - DAY}
    IN  [e \in kept |-> db[e]]
          (+) SetToBag({RateLimitEntry(session_id, ip_address, action, t)})

\* db.add(entry) of an allowed check followed by the caller's db.commit()
add_entry(db, t, session_id, ip_address, action) ==
    db (+) SetToBag({RateLimitEntry(session_id, ip_address, action, t)})

\* variant: closing the database session writes what it had added
close_flushing(db, pending) == db (+) pending

\* db.close() in the finally of the generator that yields the database
\* session: the rows the session added and did not commit are discarded
close(db, pending) == db

(***************************************************************************)
(* Requests                                                                *)
(***************************************************************************)

\* a request slot with no request in it
NoRequest ==
    [action |-> None, session_id |-> None, client_host |-> None,
     ip_address |-> None, at |-> 0]

\* the arguments of a check_and_increment call, and when it was made
NoCall == [action |-> None, session_id |-> None, ip_address |-> None, at |-> 0]

NoResult ==
    [allowed |-> FALSE,
     hour |-> LimitInfo(0, 0, 0), day |-> LimitInfo(0, 0, 0),
     ip_day |-> LimitInfo(0, 0, 0), global_day |-> LimitInfo(0, 0, 0),
     exceeded_type |-> None, retry_after |-> {}]

\* what the Core API call of an endpoint comes to: a 2xx response, a response
\* with status >= 400, or no response (httpx.RequestError); "none": no call
UpstreamOutcomes == {"ok", "error", "unreachable"}

\* the lowest status of a Core API response that the endpoints raise as an error
UpstreamErrorStatus == 400

\* no header, and the headers of a response as a function from name to value
NoHeaders == <<>>

\* a response: the status, what the Core API call came to ("none": not made), the
\* rate limit headers, and the JSON body of a 429 ({}: another body)
NoResponse == [status |-> 0, upstream |-> "none", headers |-> NoHeaders, body |-> {}]

\* str() of an int
str(n) == ToString(n)

\* the message RateLimitExceeded picks for the exceeded tier
message_of(exceeded_type) ==
    CASE exceeded_type = "hour" -> "Hourly limit reached"
      [] exceeded_type = "day" -> "Daily limit reached"
      [] exceeded_type = "ip_day" -> "IP daily limit reached"
      [] exceeded_type = "global_day" -> "Global daily limit reached - service is busy"
      [] OTHER -> "Rate limit exceeded"

\* variant: the detail names the error and nothing of the result
RateLimitExceeded_bare(res) ==
    [error |-> "rate_limit_exceeded",
     message |-> "Rate limit exceeded",
     limit_type |-> None,
     retry_after |-> {},
     limits |-> [hour |-> LimitInfo(0, 0, 0), day |-> LimitInfo(0, 0, 0),
                 ip_day |-> LimitInfo(0, 0, 0), global_day |-> LimitInfo(0, 0, 0)]]

\* RateLimitExceeded(result).detail
RateLimitExceeded(res) ==
    [error |-> "rate_limit_exceeded",
     message |-> message_of(res.exceeded_type),
     limit_type |-> res.exceeded_type,
     retry_after |-> res.retry_after,
     limits |-> [hour |-> res.hour, day |-> res.day,
                 ip_day |-> res.ip_day, global_day |-> res.global_day]]

\* the three headers built from a result, by the middleware and by the 429 handler
rate_limit_headers(res) ==
    ("X-RateLimit-Limit-Day" :> str(res.day.limit))
    @@ ("X-RateLimit-Remaining-Day" :> str(res.day.remaining))
    @@ ("X-RateLimit-Reset" :> str(res.day.reset))

\* rate_limit_exceeded_handler: the response to RateLimitExceeded(result)
rate_limit_exceeded_handler(res) ==
    [status |-> 429, upstream |-> "none",
     headers |-> rate_limit_headers(res)
                 @@ ("Retry-After" :> str(CHOOSE n \in res.retry_after : TRUE)),
     body |-> {RateLimitExceeded(res)}]

\* RateLimitHeaderMiddleware.dispatch on a response that call_next returned, for
\* a request with these attributes on request.state
dispatch(attrs, res, resp) ==
    IF "rate_limit_result" \in attrs
    THEN [resp EXCEPT !.headers = rate_limit_headers(res) @@ @]
    ELSE resp

\* the attributes require_rate_limit's dependency sets on request.state
request_state_attrs == {"rate_limit_result"}

\* variant: the address the request came from
ip_of_request(session, client_host) == client_host

\* session.ip_address or request.client.host
ip_of(session, client_host) ==
    IF session.ip_address # None THEN session.ip_address ELSE client_host

(***************************************************************************)
(* Sessions                                                                *)
(***************************************************************************)

\* a row of table sessions (models.Session)
SessionModel(session_id, core_api_email, access_token, refresh_token, token_expires_at, created_at, expires_at, ip_address) ==
    [session_id |-> session_id, core_api_email |-> core_api_email,
     access_token |-> access_token, refresh_token |-> refresh_token,
     token_expires_at |-> token_expires_at, created_at |-> created_at,
     expires_at |-> expires_at, ip_address |-> ip_address]

\* variant: one upstream identity for every session
email_of_shared(session_id) == "anon@demo.eversaid.local"

\* f"anon-{session_id}@demo.eversaid.local"
email_of(session_id) == "anon-" \o session_id \o "@demo.eversaid.local"

\* the row of a session that was created at time 0
StoredSession(session_id, ip_address) ==
    SessionModel(session_id, email_of(session_id),
                 "access-" \o session_id, "refresh-" \o session_id,
                 0 + TOKEN_EXPIRY_DAYS * DAY,
                 0,
                 0 + SESSION_DURATION_DAYS * DAY,
                 ip_address)

\* a call slot with no call in it.  found is the row the call read, if any.
NoCallOfSession ==
    [pc |-> "idle", cookie |-> None, client_host |-> None, at |-> 0,
     session_id |-> None, found |-> {}, core_calls |-> <<>>,
     outcomes |-> <<>>]

\* no call has ended yet.  session is the row returned, if any; status is the
\* status of the HTTPException raised (0: none); set_cookie is the session
\* cookie set on the response, if any; outcome is what the last Core API call
\* of the call came to
NoReturn ==
    [valid |-> FALSE, cookie |-> None, client_host |-> None, at |-> 0,
     found |-> {}, session |-> {}, status |-> 0, set_cookie |-> {},
     core_calls |-> <<>>, outcome |-> "none", outcomes |-> <<>>]

\* a row that was committed two hours before the model starts
Backdated(session_id, ip_address, action) ==
    RateLimitEntry(session_id, ip_address, action, 0 - 2 * HOUR)

\* n rows equal to e
Copies(e, n) == [x \in {e} |-> n]

\* the ledgers a behaviour starts from: an empty table, and the tables the
\* rate limit tests fabricate: three other sessions on ip1
\* (test_ip_limit_across_sessions), five sessions on five addresses
\* (test_global_limit), and s1's own earlier requests, outside the hourly window
\* (test_blocks_at_daily_limit)
SeedLedgers ==
    { EmptyBag,
      SetToBag({Backdated("other-session-0", "ip1", "transcribe"),
                Backdated("other-session-1", "ip1", "transcribe"),
                Backdated("other-session-2", "ip1", "transcribe")}),
      SetToBag({Backdated("session-0", "192.168.1.0", "transcribe"),
                Backdated("session-1", "192.168.1.1", "transcribe"),
                Backdated("session-2", "192.168.1.2", "transcribe"),
                Backdated("session-3", "192.168.1.3", "transcribe"),
                Backdated("session-4", "192.168.1.4", "transcribe")}),
      Copies(Backdated("s1", "ip1", "transcribe"), 1)
          (+) Copies(Backdated("s1", "ip1", "analyze"), 2) }

\* the rows committed since the model started
committed_here(db) == {e \in BagToSet(db) : e.created_at >= 0}

Init ==
    /\ now = 0
    /\ ticks = 0
    /\ sessions = [s \in SessionIds |->
                     StoredSession(s, IF s = "s1" THEN "ip1" ELSE None)]
    /\ ledger \in SeedLedgers
    /\ pc = [r \in Reqs |-> "idle"]
    /\ req = [r \in Reqs |-> NoRequest]
    /\ result = [r \in Reqs |-> NoResult]
    /\ lastCheck = [valid |-> FALSE, req |-> NoCall, result |-> NoResult]
    /\ response = NoResponse
    /\ calls = [c \in Calls |-> NoCallOfSession]
    /\ issued = 0
    /\ lastReturn = NoReturn

\* datetime.utcnow() moves on
Tick(d) ==
    /\ ticks < MaxTicks
    /\ now' = now + d
    /\ ticks' = ticks + 1
    /\ UNCHANGED <<sessions, limiter_vars, session_vars>>

\* variant: the entry is committed whether the check passes or not
dependency_entry_on_denial(r, action, session_id, client_host) ==
    /\ pc[r] = "idle"
    /\ \A q \in Reqs : q < r => pc[q] # "idle"
    /\ LET session == sessions[session_id]
           ip_address == ip_of(session, client_host)
           res == check_and_increment(ledger, now, session_id, ip_address, action)
           rq == [action |-> action, session_id |-> session_id,
                  client_host |-> client_host, ip_address |-> ip_address,
                  at |-> now]
           call == [action |-> action, session_id |-> session_id,
                    ip_address |-> ip_address, at |-> now]
       IN  /\ BagCardinality([e \in committed_here(ledger) |-> ledger[e]]) < MaxEntries
           /\ lastCheck' = [valid |-> TRUE, req |-> call, result |-> res]
           /\ ledger' = add_entry(ledger, now, session_id, ip_address, action)
           /\ IF ~res.allowed
              THEN /\ response' = dispatch({}, res, rate_limit_exceeded_handler(res))
                   /\ UNCHANGED <<pc, req, result>>
              ELSE /\ pc' = [pc EXCEPT ![r] = "upstream"]
                   /\ req' = [req EXCEPT ![r] = rq]
                   /\ result' = [result EXCEPT ![r] = res]
                   /\ UNCHANGED response
    /\ UNCHANGED <<now, ticks, sessions, session_vars>>

\* require_rate_limit(action).dependency for a request that presents the cookie
\* of session session_id from client_host: the check, then RateLimitExceeded
\* (the 429 of rate_limit_exceeded_handler) or db.commit().  The coroutine has
\* no await, so the check and the commit are one step.  Slots are
\* interchangeable: a request takes the lowest free one.
dependency(r, action, session_id, client_host) ==
    /\ pc[r] = "idle"
    /\ \A q \in Reqs : q < r => pc[q] # "idle"
    /\ LET session == sessions[session_id]
           ip_address == ip_of(session, client_host)
           res == check_and_increment(ledger, now, session_id, ip_address, action)
           rq == [action |-> action, session_id |-> session_id,
                  client_host |-> client_host, ip_address |-> ip_address,
                  at |-> now]
           call == [action |-> action, session_id |-> session_id,
                    ip_address |-> ip_address, at |-> now]
       IN  /\ res.allowed =>
                BagCardinality([e \in committed_here(ledger) |-> ledger[e]]) < MaxEntries
           /\ lastCheck' = [valid |-> TRUE, req |-> call, result |-> res]
           /\ IF ~res.allowed
              THEN /\ response' = dispatch({}, res, rate_limit_exceeded_handler(res))
                   /\ UNCHANGED <<ledger, pc, req, result>>
              ELSE /\ ledger' = add_entry(ledger, now, session_id, ip_address, action)
                   /\ pc' = [pc EXCEPT ![r] = "upstream"]
                   /\ req' = [req EXCEPT ![r] = rq]
                   /\ result' = [result EXCEPT ![r] = res]
                   /\ UNCHANGED response
    /\ UNCHANGED <<now, ticks, sessions, session_vars>>

\* require_rate_limit(action).dependency when db.commit() raises after an
\* allowed check has added its entry: the exception leaves the dependency
\* before request.state.rate_limit_result is set, the database session is
\* closed, and the request is answered 500 outside of the middleware
dependency_commit_fails(r, action, session_id, client_host) ==
    /\ pc[r] = "idle"
    /\ \A q \in Reqs : q < r => pc[q] # "idle"
    /\ LET session == sessions[session_id]
           ip_address == ip_of(session, client_host)
           res == check_and_increment(ledger, now, session_id, ip_address, action)
           call == [action |-> action, session_id |-> session_id,
                    ip_address |-> ip_address, at |-> now]
           entry == RateLimitEntry(session_id, ip_address, action, now)
       IN  /\ res.allowed
           /\ lastCheck' = [valid |-> TRUE, req |-> call, result |-> res]
           /\ ledger' = close(ledger, SetToBag({entry}))
           /\ response' = [status |-> 500, upstream |-> "none",
                           headers |-> NoHeaders, body |-> {}]
           /\ UNCHANGED <<pc, req, result>>
    /\ UNCHANGED <<now, ticks, sessions, session_vars>>

\* the status an endpoint answers with after a 2xx of the Core API: it reads
\* request.state.rate_limit_db to commit, and an attribute that was never set
\* raises AttributeError (500)
after_success(ok_status) ==
    IF "rate_limit_db" \in request_state_attrs THEN ok_status ELSE 500

\* the request of slot r is answered with this status.  A response that an
\* endpoint or an exception handler returned passes through the middleware; an
\* exception no handler takes becomes a 500 outside of it.
respond(r, code, outcome, handled) ==
    /\ response' =
         LET resp == [status |-> code, upstream |-> outcome,
                      headers |-> NoHeaders, body |-> {}]
         IN  IF handled THEN dispatch(request_state_attrs, result[r], resp) ELSE resp
    /\ pc' = [pc EXCEPT ![r] = "idle"]
    /\ req' = [req EXCEPT ![r] = NoRequest]
    /\ result' = [result EXCEPT ![r] = NoResult]

\* POST /api/transcribe, from the Core API call on.  The call goes through
\* core_api.client.post: an httpx.RequestError is not caught (500).
transcribe(r, outcome) ==
    /\ pc[r] = "upstream"
    /\ req[r].action = "transcribe"
    /\ CASE outcome = "ok" -> respond(r, after_success(202), outcome, after_success(202) = 202)
         [] outcome = "error" -> respond(r, UpstreamErrorStatus, outcome, TRUE)
         [] OTHER -> respond(r, 500, outcome, FALSE)
    /\ UNCHANGED <<now, ticks, sessions, ledger, lastCheck, session_vars>>

\* POST /api/cleaned-entries/{id}/analyze, from the Core API call on.  The call
\* goes through core_api.request: an httpx.RequestError becomes CoreAPIError(503).
trigger_analysis(r, outcome) ==
    /\ pc[r] = "upstream"
    /\ req[r].action = "analyze"
    /\ CASE outcome = "ok" -> respond(r, after_success(200), outcome, after_success(200) = 200)
         [] outcome = "error" -> respond(r, UpstreamErrorStatus, outcome, TRUE)
         [] OTHER -> respond(r, 503, outcome, TRUE)
    /\ UNCHANGED <<now, ticks, sessions, ledger, lastCheck, session_vars>>

(***************************************************************************)
(* Session manager (backend/app/session.py)                                *)
(***************************************************************************)

\* str(uuid.uuid4()): the k-th value generated
uuid4(k) == "uuid-" \o ToString(k)

\* the token pair of the Core API's k-th token response
token_response(k) ==
    [access_token |-> "access-" \o ToString(k),
     refresh_token |-> "refresh-" \o ToString(k)]

\* what an auth call to the Core API comes to: a 2xx response, a response with
\* the status named, or no response (httpx.RequestError)
CoreOutcomes == {"ok", "401", "500", "503", "unreachable"}

\* a client that reports a connection failure as status 500
core_error_status_unreachable_500(outcome) ==
    CASE outcome = "401" -> 401
      [] outcome = "503" -> 503
      [] OTHER -> 500

\* CoreAPIError.status_code that core_client raises for a failed call
core_error_status(outcome) ==
    CASE outcome = "401" -> 401
      [] outcome = "500" -> 500
      [] OTHER -> 503

\* the HTTPException status _create_anonymous_session raises for CoreAPIError
create_error_status(status_code) == IF status_code = 503 THEN 503 ELSE 502

\* a mapping with no case for 401
refresh_error_status_no_401(status_code) ==
    IF status_code = 503 THEN 503 ELSE 502

\* the HTTPException status _refresh_session_tokens raises for CoreAPIError
refresh_error_status(status_code) ==
    IF status_code = 401 THEN 401
    ELSE IF status_code = 503 THEN 503
    ELSE 502

\* the values a request may carry in the session cookie
CookieValues == {None, "unknown", "s1"} \cup {uuid4(k) : k \in 1..issued}

\* request.client.host if request.client else None
ClientHosts == {"ip2", None}

\* an auth call sent to the Core API
core_call(op, arg) == [op |-> op, arg |-> arg]

\* a check that finds no session expired
is_expired_never(session, t) == FALSE

\* session.expires_at < now
is_expired(session, t) == session.expires_at < t

\* variant: every token is taken to be near its expiry
needs_refresh_always(session, t) == TRUE

\* a comparison that finds no token near its expiry
needs_refresh_never(session, t) == FALSE

\* a comparison that also refreshes a token with exactly the threshold left
needs_refresh_at_threshold(session, t) ==
    session.token_expires_at <= t + TOKEN_REFRESH_THRESHOLD_HOURS * HOUR

\* session.token_expires_at < now + timedelta(hours=TOKEN_REFRESH_THRESHOLD_HOURS)
needs_refresh(session, t) ==
    session.token_expires_at < t + TOKEN_REFRESH_THRESHOLD_HOURS * HOUR

\* an update that stamps the row as created anew
refreshed_as_created(session, token, t) ==
    [session EXCEPT !.access_token = token.access_token,
                    !.refresh_token = token.refresh_token,
                    !.token_expires_at = t + TOKEN_EXPIRY_DAYS * DAY,
                    !.created_at = t]

\* the three assignments of _refresh_session_tokens to the row
refreshed(session, token, t) ==
    [session EXCEPT !.access_token = token.access_token,
                    !.refresh_token = token.refresh_token,
                    !.token_expires_at = t + TOKEN_EXPIRY_DAYS * DAY]

\* a response on which no cookie is set
set_session_cookie_skipped(session_id) == {}

\* _set_session_cookie: the session cookies set on the response
set_session_cookie(session_id) == {session_id}

\* the call of slot c ends: it returns a session or raises HTTPException(status)
call_ends(c, call, outcome, returned, status, set_cookie) ==
    /\ lastReturn' = [valid |-> TRUE, cookie |-> call.cookie,
                      client_host |-> call.client_host, at |-> call.at,
                      found |-> call.found, session |-> returned,
                      status |-> status, set_cookie |-> set_cookie,
                      core_calls |-> call.core_calls, outcome |-> outcome,
                      outcomes |-> IF outcome = "none" THEN <<>>
                                   ELSE Append(call.outcomes, outcome)]
    /\ calls' = [calls EXCEPT ![c] = NoCallOfSession]

\* datetime.utcnow() moves on
SessionTick(d) ==
    /\ ticks < MaxSessionTicks
    /\ now' = now + d
    /\ ticks' = ticks + 1
    /\ UNCHANGED <<sessions, limiter_vars, session_vars>>

\* get_or_create_session up to its first await or its return: the row is looked
\* up; an expired row is deleted and committed; then register is sent for a new
\* session, or refresh for a row whose token is near expiry, or the row is
\* returned as it is
get_or_create_session(c, cookie, client_host) ==
    /\ calls[c].pc = "idle"
    /\ \A q \in Calls : q < c => calls[q].pc # "idle"
    /\ LET found == IF cookie # None /\ cookie \in DOMAIN sessions
                    THEN {sessions[cookie]} ELSE {}
           call == [calls[c] EXCEPT !.cookie = cookie, !.client_host = client_host,
                                    !.at = now, !.found = found]
           new_id == uuid4(issued + 1)
           register == core_call("register", email_of(new_id))
           creating == [call EXCEPT !.pc = "register", !.session_id = new_id,
                                    !.core_calls = <<register>>]
       IN  \/ /\ \A session \in found : is_expired(session, now)
              /\ issued < MaxIssued
              /\ sessions' = [id \in DOMAIN sessions \ {cookie} |-> sessions[id]]
              /\ issued' = issued + 1
              /\ calls' = [calls EXCEPT ![c] = creating]
              /\ UNCHANGED lastReturn
           \/ \E session \in found :
                 /\ ~is_expired(session, now)
                 /\ needs_refresh(session, now)
                 /\ LET refresh == core_call("refresh", session.refresh_token)
                    IN  calls' = [calls EXCEPT ![c] =
                                    [call EXCEPT !.pc = "refresh",
                                                 !.core_calls = <<refresh>>]]
                 /\ UNCHANGED <<sessions, issued, lastReturn>>
           \/ \E session \in found :
                 /\ ~is_expired(session, now)
                 /\ ~needs_refresh(session, now)
                 /\ call_ends(c, call, "none", {session}, 0, {})
                 /\ UNCHANGED <<sessions, issued>>
    /\ UNCHANGED <<now, ticks, limiter_vars>>

\* variant: login is sent whatever register came to
register_returns_login_anyway(c, outcome) ==
    /\ calls[c].pc = "register"
    /\ LET login == core_call("login", email_of(calls[c].session_id))
       IN  calls' = [calls EXCEPT ![c].pc = "login",
                                  ![c].core_calls = Append(@, login),
                                  ![c].outcomes = Append(@, outcome)]
    /\ UNCHANGED <<now, ticks, sessions, issued, lastReturn, limiter_vars>>

\* _create_anonymous_session after await core_api.register: login is sent, or
\* CoreAPIError becomes HTTPException
register_returns(c, outcome) ==
    /\ calls[c].pc = "register"
    /\ IF outcome = "ok"
       THEN LET login == core_call("login", email_of(calls[c].session_id))
            IN  /\ calls' = [calls EXCEPT ![c].pc = "login",
                                          ![c].core_calls = Append(@, login),
                                          ![c].outcomes = Append(@, outcome)]
                /\ UNCHANGED lastReturn
       ELSE /\ call_ends(c, calls[c], outcome, {},
                         create_error_status(core_error_status(outcome)), {})
    /\ UNCHANGED <<now, ticks, sessions, issued, limiter_vars>>

\* _create_anonymous_session after await core_api.login: the row is added and
\* committed and the cookie is set, or CoreAPIError becomes HTTPException
login_returns(c, outcome) ==
    /\ calls[c].pc = "login"
    /\ IF outcome = "ok"
       THEN LET id == calls[c].session_id
                session ==
                    SessionModel(id, email_of(id),
                                 "access-" \o id, "refresh-" \o id,
                                 now + TOKEN_EXPIRY_DAYS * DAY, now,
                                 now + SESSION_DURATION_DAYS * DAY,
                                 calls[c].client_host)
            IN  /\ sessions' = (id :> session) @@ sessions
                /\ call_ends(c, calls[c], outcome, {session}, 0, set_session_cookie(id))
       ELSE /\ call_ends(c, calls[c], outcome, {},
                         create_error_status(core_error_status(outcome)), {})
            /\ UNCHANGED sessions
    /\ UNCHANGED <<now, ticks, issued, limiter_vars>>

\* _refresh_session_tokens after await core_api.refresh: the three token
\* columns of the row are updated and committed and the row is read back, or
\* CoreAPIError becomes HTTPException; the UPDATE of a row that is no longer
\* there raises StaleDataError, which no handler catches
refresh_returns(c, outcome) ==
    /\ calls[c].pc = "refresh"
    /\ \E loaded \in calls[c].found :
          LET id == loaded.session_id
              token == token_response(issued + 1)
          IN  IF outcome = "ok"
              THEN /\ issued < MaxIssued
                   /\ issued' = issued + 1
                   /\ IF id \in DOMAIN sessions
                      THEN LET session == refreshed(sessions[id], token, now)
                           IN  /\ sessions' = [sessions EXCEPT ![id] = session]
                               /\ call_ends(c, calls[c], outcome, {session}, 0, {})
                      ELSE /\ call_ends(c, calls[c], outcome, {}, 500, {})
                           /\ UNCHANGED sessions
              ELSE /\ call_ends(c, calls[c], outcome, {},
                                refresh_error_status(core_error_status(outcome)),
                                {})
                   /\ UNCHANGED <<sessions, issued>>
    /\ UNCHANGED <<now, ticks, limiter_vars>>

Advance == \E d \in TickSteps : Tick(d)

Check ==
    \E r \in Reqs, action \in Actions, session_id \in SessionIds, client_host \in IPs :
        dependency(r, action, session_id, client_host)

Transcribe == \E r \in Reqs, outcome \in UpstreamOutcomes : transcribe(r, outcome)

Analyze == \E r \in Reqs, outcome \in UpstreamOutcomes : trigger_analysis(r, outcome)

Next == Advance \/ Check \/ Transcribe \/ Analyze

Spec == Init /\ [][Next]_vars

\* a request whose db.commit() raises
CommitFails ==
    \E r \in Reqs, action \in Actions, session_id \in SessionIds, client_host \in IPs :
        dependency_commit_fails(r, action, session_id, client_host)

CommitNext == Advance \/ Check \/ CommitFails

\* the dependencies of the requests with a database whose commits can fail;
\* the requests that passed stay in flight
CommitSpec == Init /\ [][CommitNext]_vars

\* the created_at values at the edges of the windows of a check at time 0: one
\* second outside and exactly at the start of the day and of the hour window,
\* and one second after the check (the clock was set back since the row was
\* written: datetime.utcnow() is not monotonic)
WindowStamps == {0 - DAY - 1, 0 - DAY, 0 - HOUR - 1, 0 - HOUR, 1}

\* a table with one row of s1 from ip1 at an edge of a window
WindowLedgers ==
    {SetToBag({RateLimitEntry("s1", "ip1", "transcribe", t)}) : t \in WindowStamps}

\* the rate limiter over the tables with a row at the edge of a window
WindowInit ==
    /\ now = 0
    /\ ticks = 0
    /\ sessions = [s \in SessionIds |->
                     StoredSession(s, IF s = "s1" THEN "ip1" ELSE None)]
    /\ ledger \in WindowLedgers
    /\ pc = [r \in Reqs |-> "idle"]
    /\ req = [r \in Reqs |-> NoRequest]
    /\ result = [r \in Reqs |-> NoResult]
    /\ lastCheck = [valid |-> FALSE, req |-> NoCall, result |-> NoResult]
    /\ response = NoResponse
    /\ calls = [c \in Calls |-> NoCallOfSession]
    /\ issued = 0
    /\ lastReturn = NoReturn

WindowSpec == WindowInit /\ [][Next]_vars

\* the session manager on its own: the table holds one stored session, the
\* ledger the entry of a request it made, and no request is being checked
SessionInit ==
    /\ now = 0
    /\ ticks = 0
    /\ sessions = ("s1" :> StoredSession("s1", "ip1"))
    /\ ledger = SetToBag({RateLimitEntry("s1", "ip1", "transcribe", 0)})
    /\ pc = [r \in Reqs |-> "idle"]
    /\ req = [r \in Reqs |-> NoRequest]
    /\ result = [r \in Reqs |-> NoResult]
    /\ lastCheck = NoCall
    /\ response = NoResponse
    /\ calls = [c \in Calls |-> NoCallOfSession]
    /\ issued = 0
    /\ lastReturn = NoReturn

SessionAdvance == \E d \in SessionTickSteps : SessionTick(d)

GetOrCreate ==
    \E c \in Calls, cookie \in CookieValues, client_host \in ClientHosts :
        get_or_create_session(c, cookie, client_host)

RegisterReturns == \E c \in Calls, outcome \in CoreOutcomes : register_returns(c, outcome)

LoginReturns == \E c \in Calls, outcome \in CoreOutcomes : login_returns(c, outcome)

RefreshReturns == \E c \in Calls, outcome \in CoreOutcomes : refresh_returns(c, outcome)

SessionNext ==
    \/ SessionAdvance
    \/ GetOrCreate
    \/ RegisterReturns
    \/ LoginReturns
    \/ RefreshReturns

SessionSpec == SessionInit /\ [][SessionNext]_vars

(***************************************************************************)
(* Properties                                                              *)
(*                                                                         *)
(* The ledger changes only in a check, so in every state it is the ledger  *)
(* the latest check left, and the ledger that check read is that one less  *)
(* the entry the check added.  The counts below are taken from the rows    *)
(* themselves, not through the tracker.                                    *)
(***************************************************************************)

\* the entry an allowed check of `call` adds
EntryOf(call) ==
    RateLimitEntry(call.session_id, call.ip_address, call.action, call.at)

\* the ledger the latest check read
LedgerBefore ==
    IF lastCheck.result.allowed
    THEN ledger (-) SetToBag({EntryOf(lastCheck.req)})
    ELSE ledger

\* how many rows of db are in the set S
Rows(db, S) == BagCardinality([e \in S |-> db[e]])

\* the rows of db of an action that were created at or after since
InWindow(db, action, since) ==
    {e \in BagToSet(db) : e.action = action /\ e.created_at >= since}

SessionHourCount(db, c) ==
    Rows(db, {e \in InWindow(db, c.action, c.at - HOUR) : e.session_id = c.session_id})
SessionDayCount(db, c) ==
    Rows(db, {e \in InWindow(db, c.action, c.at - DAY) : e.session_id = c.session_id})
IpDayCount(db, c) ==
    Rows(db, {e \in InWindow(db, c.action, c.at - DAY) : e.ip_address = c.ip_address})
GlobalDayCount(db, c) ==
    Rows(db, InWindow(db, c.action, c.at - DAY))

\* the four counts of a call, in the order of the tiers
TierCounts(db, c) ==
    <<SessionHourCount(db, c), SessionDayCount(db, c),
      IpDayCount(db, c), GlobalDayCount(db, c)>>

\* the four remaining values of a result, in the order of the tiers
Remaining(res) ==
    <<res.hour.remaining, res.day.remaining,
      res.ip_day.remaining, res.global_day.remaining>>

\* two calls check the same (action, session, IP)
SameTriple(a, b) ==
    /\ a.action = b.action
    /\ a.session_id = b.session_id
    /\ a.ip_address = b.ip_address

\* no row of db that a check of the action counts at t1 has left a window at t2
NoRollover(db, action, t1, t2) ==
    \A e \in BagToSet(db) : e.action = action =>
        /\ (e.created_at >= t1 - HOUR) <=> (e.created_at >= t2 - HOUR)
        /\ (e.created_at >= t1 - DAY) <=> (e.created_at >= t2 - DAY)

\* this step is a check: an allowed one occupies a slot, a denied one after an
\* allowed one changes the latest result
CheckStep ==
    \/ \E r \in Reqs : pc[r] = "idle" /\ pc'[r] = "upstream"
    \/ lastCheck' # lastCheck

\* this step is a check of the triple the latest check was of
NextCheckOfSameTriple ==
    /\ lastCheck.valid
    /\ CheckStep
    /\ SameTriple(lastCheck.req, lastCheck'.req)

C1_Step ==
    (/\ NextCheckOfSameTriple
     /\ lastCheck.result.allowed
     /\ NoRollover(ledger, lastCheck.req.action, lastCheck.req.at, lastCheck'.req.at))
    => /\ lastCheck'.result.allowed =>
            \A i \in 1..4 :
                Remaining(lastCheck'.result)[i] = Remaining(lastCheck.result)[i] - 1
       /\ (\E i \in 1..4 : Remaining(lastCheck.result)[i] = 0) =>
            ~lastCheck'.result.allowed

\* C1: monotonic consumption.  When an allowed check is followed by a check of the
\* same (action, session, IP) with no window rollover in between, an allowed
\* second check reports for every tier a remaining exactly 1 lower than the
\* first, and the second check is denied when the first reported 0 for a tier.
C1_MonotonicConsumption == [][C1_Step]_vars

\* s1 was allowed RATE_LIMIT_HOUR transcribe checks at time 0 and the next is
\* denied by the hour tier
C1_Witness ==
    /\ lastCheck.valid
    /\ ~lastCheck.result.allowed
    /\ lastCheck.result.exceeded_type = "hour"
    /\ lastCheck.req.action = "transcribe"
    /\ CopiesIn(EntryOf(lastCheck.req), ledger) = RATE_LIMIT_HOUR

\* C2: a check is allowed if and only if every tier's count of the checked action
\* is below its limit, and denied if and only if some tier's count has reached it.
C2_DeniedIffSomeTierAtLimit ==
    lastCheck.valid =>
        LET counts == TierCounts(LedgerBefore, lastCheck.req)
            limits == get_limits(lastCheck.req.action)
        IN  /\ lastCheck.result.allowed <=> \A i \in 1..4 : counts[i] < limits[i]
            /\ ~lastCheck.result.allowed <=> \E i \in 1..4 : counts[i] >= limits[i]

\* a check is denied with the hour tier exactly at its limit and every other
\* tier below its limit
C2_Witness ==
    /\ lastCheck.valid
    /\ ~lastCheck.result.allowed
    /\ LET counts == TierCounts(LedgerBefore, lastCheck.req)
           limits == get_limits(lastCheck.req.action)
       IN  /\ counts[1] = limits[1]
           /\ \A i \in 2..4 : counts[i] < limits[i]

\* the rows of db in the window of length w that ends with row e
WindowEndingAt(db, e, w) ==
    {x \in BagToSet(db) :
        /\ x.action = e.action
        /\ x.created_at >= e.created_at - w
        /\ x.created_at <= e.created_at}

AnsweredAfterFailure(r) ==
    /\ pc[r] = "upstream"
    /\ pc'[r] = "idle"
    /\ response'.upstream \in {"error", "unreachable"}

C4_Step ==
    \A r \in Reqs : AnsweredAfterFailure(r) =>
        /\ ledger' = ledger
        /\ CopiesIn(EntryOf(req[r]), ledger') >= 1

C5_Step ==
    \A r \in Reqs : (AnsweredAfterFailure(r) /\ response = NoResponse) =>
        committed_here(ledger') = {}

\* C5: count successes.  The entry is committed only after a successful Core API
\* call, so when the first request to be answered is one whose Core API call
\* failed, no entry has been committed.
C5_CountSuccesses == [][C5_Step]_vars

TierNames == <<"hour", "day", "ip_day", "global_day">>

\* the window of tier i, which is also the wait a denial by it reports
TierWindow(i) == IF i = 1 THEN HOUR ELSE DAY

\* the tiers whose count, in the ledger the latest check read, has reached the limit
ExceededTiers ==
    LET counts == TierCounts(LedgerBefore, lastCheck.req)
        limits == get_limits(lastCheck.req.action)
    IN  {i \in 1..4 : counts[i] >= limits[i]}

\* C6: longest wait wins.  A denied check names in exceeded_type a tier that is
\* exceeded and whose wait is the longest of the exceeded tiers, and reports that
\* wait; it never names "hour" when a 24-hour tier is exceeded as well.
C6_LongestWaitWins ==
    (lastCheck.valid /\ ~lastCheck.result.allowed) =>
        /\ \E i \in ExceededTiers :
              /\ lastCheck.result.exceeded_type = TierNames[i]
              /\ lastCheck.result.retry_after = {TierWindow(i)}
              /\ \A j \in ExceededTiers : TierWindow(j) <= TierWindow(i)
        /\ (1 \in ExceededTiers /\ ExceededTiers # {1}) =>
              lastCheck.result.exceeded_type # "hour"

\* a check is denied with the hour tier and the session's day tier both exceeded
C6_Witness ==
    /\ lastCheck.valid
    /\ ~lastCheck.result.allowed
    /\ {1, 2} \subseteq ExceededTiers
    /\ lastCheck.result.exceeded_type = "day"

\* C7: conservative reset.  Every result, allowed or denied, reports for the hour
\* tier the time of the check plus one hour and for the day, ip_day and global_day
\* tiers the time of the check plus 24 hours, whatever rows the ledger holds.
C7_ResetIsNowPlusWindow ==
    lastCheck.valid =>
        /\ lastCheck.result.hour.reset = lastCheck.req.at + 3600
        /\ lastCheck.result.day.reset = lastCheck.req.at + 86400
        /\ lastCheck.result.ip_day.reset = lastCheck.req.at + 86400
        /\ lastCheck.result.global_day.reset = lastCheck.req.at + 86400

\* a check is made an hour after a row it counts was committed
C7_Witness ==
    /\ lastCheck.valid
    /\ lastCheck.req.at = HOUR
    /\ \E e \in BagToSet(LedgerBefore) :
          /\ e.created_at = 0
          /\ SameTriple(e, lastCheck.req)
    /\ lastCheck.result.hour.reset = 2 * HOUR

C8_Step ==
    (/\ NextCheckOfSameTriple
     /\ ~lastCheck.result.allowed
     /\ lastCheck.result.retry_after = {lastCheck'.req.at - lastCheck.req.at})
    => lastCheck'.result.allowed

\* C8: the reported reset is never earlier than the true reset.  When a check is
\* denied with retry_after r and the next check, with no entry added in between,
\* is of the same (action, session, IP) and is made r seconds later, it is allowed.
C8_RetryAfterIsEnough == [][C8_Step]_vars

\* the session-tier part of a result: what it reports as remaining for the hour
\* and the day tier
SessionRemaining(res) == <<res.hour.remaining, res.day.remaining>>

\* remaining as a result reports it for a tier with this limit and count
ReportedRemaining(limit, count, allowed) ==
    LET left == IF count >= limit THEN 0 ELSE limit - count
    IN  IF allowed /\ left > 0 THEN left - 1 ELSE left

\* the rows of db that belong to a session
RowsOfSession(db, session_id) ==
    {e \in BagToSet(db) : e.session_id = session_id}

C9_Step ==
    \A s2 \in SessionIds, ip \in IPs, action \in Actions :
        (\A e \in BagToSet(ledger' (-) ledger) : e.session_id # s2) =>
            /\ tier_counts(ledger', now', s2, ip, action)[1]
                 = tier_counts(ledger, now', s2, ip, action)[1]
            /\ tier_counts(ledger', now', s2, ip, action)[2]
                 = tier_counts(ledger, now', s2, ip, action)[2]

\* C9: session-tier isolation.  A row recorded for one session changes neither the
\* hour count nor the day count the tracker takes for a different session, from
\* the same IP address or from another one; and the remaining a result reports
\* for the two session tiers is determined by the rows of the checked session
\* alone.
C9_SessionTierIsolation ==
    /\ [](lastCheck.valid =>
            LET c == lastCheck.req
                limits == get_limits(c.action)
                own == RowsOfSession(LedgerBefore, c.session_id)
                hour == Rows(LedgerBefore, own \cap InWindow(LedgerBefore, c.action, c.at - HOUR))
                day == Rows(LedgerBefore, own \cap InWindow(LedgerBefore, c.action, c.at - DAY))
            IN  SessionRemaining(lastCheck.result)
                  = <<ReportedRemaining(limits[1], hour, lastCheck.result.allowed),
                      ReportedRemaining(limits[2], day, lastCheck.result.allowed)>>)
    /\ [][C9_Step]_vars

\* two sessions share an IP address; one has recorded a row there, and the other
\* is then allowed a first check that reports its session tiers untouched
C9_Witness ==
    /\ lastCheck.valid
    /\ lastCheck.result.allowed
    /\ lastCheck.req.session_id = "s2"
    /\ \E e \in committed_here(ledger) :
          /\ e.session_id = "s1"
          /\ e.ip_address = lastCheck.req.ip_address
          /\ e.action = lastCheck.req.action
    /\ lastCheck.result.hour.remaining = lastCheck.result.hour.limit - 1
    /\ lastCheck.result.day.remaining = lastCheck.result.day.limit - 1

\* C10: the ip_day tier counts the rows of the action that any session recorded
\* from the same IP address within 24 hours; and when that count has reached the
\* ip_day limit, a check from a session whose own hour and day tiers are below
\* their limits is denied with exceeded_type "ip_day".
C10_IpDayAcrossSessions ==
    lastCheck.valid =>
        LET c == lastCheck.req
            limits == get_limits(c.action)
            counts == TierCounts(LedgerBefore, c)
        IN  /\ lastCheck.result.ip_day.remaining
                 = ReportedRemaining(limits[3], counts[3], lastCheck.result.allowed)
            /\ (counts[3] >= limits[3] /\ counts[1] < limits[1] /\ counts[2] < limits[2])
                 => /\ ~lastCheck.result.allowed
                    /\ lastCheck.result.exceeded_type = "ip_day"

\* a session with no row of its own is denied by the ip_day tier, which rows of
\* other sessions on its IP address have filled
C10_Witness ==
    /\ lastCheck.valid
    /\ ~lastCheck.result.allowed
    /\ lastCheck.result.exceeded_type = "ip_day"
    /\ RowsOfSession(ledger, lastCheck.req.session_id) = {}
    /\ IpDayCount(ledger, lastCheck.req) = get_limits(lastCheck.req.action)[3]

\* C11: the global_day tier counts every row of the action within 24 hours,
\* whatever its session and IP address; and when that count has reached the
\* global limit while the other tiers are below theirs, as for the first check of
\* a new session from a new IP address, the check is denied with exceeded_type
\* "global_day".
C11_GlobalDayCountsAll ==
    lastCheck.valid =>
        LET c == lastCheck.req
            limits == get_limits(c.action)
            counts == TierCounts(LedgerBefore, c)
        IN  /\ lastCheck.result.global_day.remaining
                 = ReportedRemaining(limits[4], counts[4], lastCheck.result.allowed)
            /\ (counts[4] >= limits[4] /\ \A i \in 1..3 : counts[i] < limits[i])
                 => /\ ~lastCheck.result.allowed
                    /\ lastCheck.result.exceeded_type = "global_day"

\* a session with no row, from an IP address with no row, is denied by the
\* global_day tier on its first check
C11_Witness ==
    /\ lastCheck.valid
    /\ ~lastCheck.result.allowed
    /\ lastCheck.result.exceeded_type = "global_day"
    /\ \A e \in BagToSet(ledger) :
          /\ e.session_id # lastCheck.req.session_id
          /\ e.ip_address # lastCheck.req.ip_address
    /\ GlobalDayCount(ledger, lastCheck.req) = get_limits(lastCheck.req.action)[4]

\* the rows of db of one action
RowsOfAction(db, action) ==
    [e \in {x \in BagToSet(db) : x.action = action} |-> db[e]]

\* the other action
OtherAction(action) == IF action = "analyze" THEN "transcribe" ELSE "analyze"

\* C12: action-class isolation.  The result of a check is the result the same
\* check has on the rows of its own action alone, so no tier counts a row of the
\* other action; and the limits it reports are the bundle of its action.
C12_ActionIsolation ==
    lastCheck.valid =>
        LET c == lastCheck.req
        IN  /\ lastCheck.result
                 = check_and_increment(RowsOfAction(LedgerBefore, c.action),
                                       c.at, c.session_id, c.ip_address, c.action)
            /\ <<lastCheck.result.hour.limit, lastCheck.result.day.limit,
                 lastCheck.result.ip_day.limit, lastCheck.result.global_day.limit>>
                 = IF c.action = "analyze"
                   THEN <<RATE_LIMIT_LLM_HOUR, RATE_LIMIT_LLM_DAY,
                          RATE_LIMIT_LLM_IP_DAY, RATE_LIMIT_LLM_GLOBAL_DAY>>
                   ELSE <<RATE_LIMIT_HOUR, RATE_LIMIT_DAY,
                          RATE_LIMIT_IP_DAY, RATE_LIMIT_GLOBAL_DAY>>

\* a session is allowed an analyze check at a time when a tier of its transcribe
\* checks is at its limit
C12_Witness ==
    /\ lastCheck.valid
    /\ lastCheck.result.allowed
    /\ lastCheck.req.action = "analyze"
    /\ LET c == [lastCheck.req EXCEPT !.action = "transcribe"]
           counts == TierCounts(ledger, c)
           limits == get_limits("transcribe")
       IN  \E i \in 1..4 : counts[i] >= limits[i]

\* this step is a check that is denied
DeniedCheckStep ==
    /\ lastCheck' # lastCheck \/ response' # response
    /\ lastCheck'.valid
    /\ ~lastCheck'.result.allowed
    /\ response'.status = 429

\* C13: a denied check adds no entry.  The step of a denied check leaves the
\* committed rows and the requests in flight, with the entries they staged, as
\* they were.
C13_DeniedAddsNoEntry ==
    [][DeniedCheckStep => (ledger' = ledger /\ pc' = pc /\ req' = req)]_vars

\* a check is denied an hour after the rows that brought the hour tier to its
\* limit were committed, and the ledger holds only those rows
C13_Witness ==
    /\ lastCheck.valid
    /\ ~lastCheck.result.allowed
    /\ response.status = 429
    /\ lastCheck.req.at = HOUR
    /\ lastCheck.result.exceeded_type = "hour"
    /\ Rows(ledger, committed_here(ledger)) = RATE_LIMIT_HOUR

\* this step is a check whose call or result differs from the latest one's, and
\* it is denied
NewDenial ==
    /\ lastCheck' # lastCheck
    /\ lastCheck'.valid
    /\ ~lastCheck'.result.allowed

C14_Step ==
    NewDenial =>
        LET res == lastCheck'.result
        IN  /\ response'.status = 429
            /\ \E b \in response'.body :
                  /\ response'.body = {b}
                  /\ b.limit_type = res.exceeded_type
                  /\ b.limit_type \in Tiers
                  /\ b.retry_after = res.retry_after
                  /\ b.retry_after # {}
                  /\ b.limits = [hour |-> res.hour, day |-> res.day,
                                 ip_day |-> res.ip_day, global_day |-> res.global_day]
            /\ response'.upstream = "none"
            /\ pc' = pc

\* C14: a denied check is answered with a 429 whose body carries limit_type (the
\* exceeded tier), retry_after and limit, remaining and reset of all four tiers,
\* and no Core API call is made for the request.
C14_DenialIs429 == [][C14_Step]_vars

\* the latest response is the 429 of the latest check, denied by the ip_day tier
C14_Witness ==
    /\ lastCheck.valid
    /\ ~lastCheck.result.allowed
    /\ response.status = 429
    /\ \E b \in response.body :
          /\ b.limit_type = "ip_day"
          /\ b.limits.ip_day = lastCheck.result.ip_day
          /\ b.limits.ip_day.remaining = 0
          /\ b.limits.hour.remaining > 0

C15_Step ==
    (CheckStep /\ lastCheck'.valid) =>
        LET c == lastCheck'.req
            res == lastCheck'.result
            limits == get_limits(c.action)
            counts == TierCounts(ledger, c)
        IN  /\ \A i \in 1..4 :
                  Remaining(res)[i] = ReportedRemaining(limits[i], counts[i], res.allowed)
            /\ res.allowed <=> \A i \in 1..4 : counts[i] < limits[i]
            /\ res.allowed => ledger' = ledger (+) SetToBag({EntryOf(c)})

C16_Step ==
    NewDenial =>
        LET res == lastCheck'.result
            at == lastCheck'.req.at
            reset == CASE res.exceeded_type = "hour" -> res.hour.reset
                       [] res.exceeded_type = "day" -> res.day.reset
                       [] res.exceeded_type = "ip_day" -> res.ip_day.reset
                       [] OTHER -> res.global_day.reset
        IN  /\ \E n \in res.retry_after :
                  /\ res.retry_after = {n}
                  /\ n \in Nat /\ n > 0
                  /\ n = reset - at
                  /\ n = IF res.exceeded_type = "hour" THEN 3600 ELSE 86400
            /\ "Retry-After" \in DOMAIN response'.headers
            /\ response'.headers["Retry-After"]
                 = IF res.exceeded_type = "hour" THEN "3600" ELSE "86400"

C17_RemainingRange ==
    lastCheck.valid =>
        LET res == lastCheck.result
            limits == get_limits(lastCheck.req.action)
            counts == TierCounts(LedgerBefore, lastCheck.req)
            floor0(n) == IF n < 0 THEN 0 ELSE n
        IN  /\ \A i \in 1..4 : Remaining(res)[i] \in 0..limits[i]
            /\ ~res.allowed =>
                  /\ \A i \in 1..4 : Remaining(res)[i] = floor0(limits[i] - counts[i])
                  /\ \E i \in 1..4 : TierNames[i] = res.exceeded_type
                                      /\ Remaining(res)[i] = 0
            /\ res.allowed =>
                  \A i \in 1..4 : Remaining(res)[i] = floor0(limits[i] - counts[i] - 1)

\* an allowed check uses up the last unit of the day tier while the hour tier
\* has one left
C17_Witness ==
    /\ lastCheck.valid
    /\ lastCheck.result.allowed
    /\ lastCheck.result.day.remaining = 0
    /\ lastCheck.result.hour.remaining = 1
    /\ lastCheck.result.global_day.remaining > 1

\* the headers the rate limit tests expect on every response
ExpectedHeaders ==
    {"X-RateLimit-Limit-Hour", "X-RateLimit-Remaining-Hour",
     "X-RateLimit-Limit-Day", "X-RateLimit-Remaining-Day", "X-RateLimit-Reset"}

\* C18: every response of a rate-limited endpoint, the 429 and the one after a
\* successful Core API call, carries X-RateLimit-Limit-Hour and
\* X-RateLimit-Remaining-Hour beside the two Day headers and X-RateLimit-Reset.
C18_HourHeaders ==
    (response.status = 429 \/ response.upstream = "ok") =>
        ExpectedHeaders \subseteq DOMAIN response.headers

(***************************************************************************)
(* Properties of the session manager                                       *)
(***************************************************************************)

\* a call of get_or_create_session ends in this step, and lastReturn' is what
\* it returned or raised
CallEnds ==
    \/ lastReturn' # lastReturn
    \/ \E c \in Calls : calls[c].pc # "idle" /\ calls'[c].pc = "idle"

\* the refresh calls among the Core API calls a call made
RefreshCalls(ret) == SelectSeq(ret.core_calls, LAMBDA call : call.op = "refresh")

\* the row a call found was not expired and its token had at least the
\* threshold left when the call looked
FoundFresh(ret) ==
    \E row \in ret.found :
        /\ row.expires_at >= ret.at
        /\ row.token_expires_at >= ret.at + TOKEN_REFRESH_THRESHOLD_HOURS * HOUR

\* the row a call found was not expired and its token had less than the
\* threshold left when the call looked
FoundStale(ret) ==
    \E row \in ret.found :
        /\ row.expires_at >= ret.at
        /\ row.token_expires_at < ret.at + TOKEN_REFRESH_THRESHOLD_HOURS * HOUR

\* C19: a call for a non-expired session whose token_expires_at is at least the
\* threshold (1 hour) after now makes no refresh call to the Core API; a call
\* for a non-expired session whose token_expires_at is earlier than now plus
\* the threshold makes exactly one refresh call, and the session it returns is
\* the same session with the access token and refresh token the Core API just
\* issued and token_expires_at set TOKEN_EXPIRY_DAYS after the time of return.
C19_Step ==
    CallEnds =>
        LET ret == lastReturn'
        IN  /\ FoundFresh(ret) => Len(RefreshCalls(ret)) = 0
            /\ FoundStale(ret) =>
                  /\ Len(RefreshCalls(ret)) = 1
                  /\ \A row \in ret.found :
                        RefreshCalls(ret)[1].arg = row.refresh_token
                  /\ \A row \in ret.found, session \in ret.session :
                        /\ session.session_id = row.session_id
                        /\ session.access_token = token_response(issued').access_token
                        /\ session.refresh_token = token_response(issued').refresh_token
                        /\ session.access_token # row.access_token
                        /\ session.refresh_token # row.refresh_token
                        /\ session.token_expires_at = now' + TOKEN_EXPIRY_DAYS * DAY
                        /\ session = sessions'[row.session_id]

C19_RefreshWindow == [][C19_Step]_vars

\* a call found a session with exactly one second less than the threshold left
\* on its token and returned it with new tokens
C19_Witness ==
    /\ lastReturn.valid
    /\ FoundStale(lastReturn)
    /\ \E row \in lastReturn.found, session \in lastReturn.session :
          /\ row.token_expires_at + 1 =
                 lastReturn.at + TOKEN_REFRESH_THRESHOLD_HOURS * HOUR
          /\ session.access_token # row.access_token

\* the row a call found had its expires_at before the time the call looked
FoundExpired(ret, row) == row \in ret.found /\ row.expires_at < ret.at

\* C20: a call of get_or_create_session that finds a row whose expires_at is
\* before now never returns that row: the row is deleted before the call first
\* waits, it stays deleted, and a call that returns has created a new row with
\* a different session_id, returns it, and sets its session_id as the cookie.
C20_Step ==
    /\ \A c \in Calls :
          (calls[c].pc = "idle" /\ calls'[c].pc # "idle") =>
              \A row \in calls'[c].found :
                  FoundExpired(calls'[c], row) =>
                      /\ row.session_id \notin DOMAIN sessions'
                      /\ calls'[c].pc = "register"
                      /\ calls'[c].session_id # row.session_id
    /\ CallEnds =>
          LET ret == lastReturn'
          IN  \A row \in ret.found :
                  FoundExpired(ret, row) =>
                      /\ row.session_id \notin DOMAIN sessions'
                      /\ \A session \in ret.session :
                            session.session_id # row.session_id
                      /\ ret.status = 0 =>
                            \E session \in ret.session :
                                /\ ret.session = {session}
                                /\ session.session_id \notin DOMAIN sessions
                                /\ session.session_id \in DOMAIN sessions'
                                /\ sessions'[session.session_id] = session
                                /\ session.expires_at >= now'
                                /\ ret.set_cookie = {session.session_id}

C21_Step ==
    CallEnds =>
        LET ret == lastReturn'
        IN  /\ ret.status = 0 <=> ret.session # {}
            /\ ret.status # 0 => ret.status \in {401, 500, 502, 503}
            /\ \A session \in ret.session :
                  /\ session.session_id \in DOMAIN sessions'
                  /\ sessions'[session.session_id] = session
                  /\ session.expires_at >= ret.at
                  /\ session.token_expires_at >=
                         now' + TOKEN_REFRESH_THRESHOLD_HOURS * HOUR

C22_TransactionalReplacement ==
    \A row \in lastReturn.found :
        (FoundExpired(lastReturn, row) /\ row.session_id \notin DOMAIN sessions) =>
            \E session \in lastReturn.session :
                /\ session.session_id \in DOMAIN sessions
                /\ session.session_id # row.session_id

\* a call that was waiting for core_api.refresh ends in this step
RefreshEnds(c) == calls[c].pc = "refresh" /\ calls'[c].pc = "idle"

\* C23: a successful token refresh changes the row in place: access_token and
\* refresh_token become the values the Core API issued and token_expires_at
\* becomes now + 7 days, while session_id, core_api_email, created_at,
\* expires_at and ip_address stay as they are, no row is added or removed, and
\* no other row changes.
C23_Step ==
    \A c \in Calls :
        (RefreshEnds(c) /\ lastReturn'.status = 0) =>
            \E row \in calls[c].found :
                LET id == row.session_id
                IN  /\ DOMAIN sessions' = DOMAIN sessions
                    /\ id \in DOMAIN sessions
                    /\ \A other \in DOMAIN sessions \ {id} :
                          sessions'[other] = sessions[other]
                    /\ sessions'[id].access_token = token_response(issued').access_token
                    /\ sessions'[id].refresh_token = token_response(issued').refresh_token
                    /\ sessions'[id].token_expires_at = now' + 7 * DAY
                    /\ sessions'[id].session_id = sessions[id].session_id
                    /\ sessions'[id].core_api_email = sessions[id].core_api_email
                    /\ sessions'[id].created_at = sessions[id].created_at
                    /\ sessions'[id].expires_at = sessions[id].expires_at
                    /\ sessions'[id].ip_address = sessions[id].ip_address

C23_RefreshInPlace == [][C23_Step]_vars

\* a request from another address had the tokens of a row refreshed at a time
\* later than the row's creation, and the row kept its creation time and address
C23_Witness ==
    /\ lastReturn.valid
    /\ lastReturn.status = 0
    /\ \E row \in lastReturn.found, session \in lastReturn.session :
          /\ Len(RefreshCalls(lastReturn)) = 1
          /\ session.session_id = row.session_id
          /\ session.created_at < lastReturn.at
          /\ session.ip_address # lastReturn.client_host
          /\ session.refresh_token # row.refresh_token

\* C24: a refresh the Core API rejects with status 401 raises the 401
\* session-expired error, which no other outcome of a refresh raises (they
\* raise 502 or 503), returns no session, and leaves the table, with the row's
\* access token, refresh token and token_expires_at, as it was.
C24_Step ==
    \A c \in Calls :
        RefreshEnds(c) =>
            /\ lastReturn'.outcome = "401" <=> lastReturn'.status = 401
            /\ lastReturn'.outcome = "401" =>
                  /\ lastReturn'.session = {}
                  /\ lastReturn'.set_cookie = {}
                  /\ sessions' = sessions

C24_Refresh401 == [][C24_Step]_vars

\* a refresh was rejected with 401 and the row the call found is still stored
\* with the tokens it had
C24_Witness ==
    /\ lastReturn.valid
    /\ lastReturn.outcome = "401"
    /\ lastReturn.status = 401
    /\ \E row \in lastReturn.found :
          /\ row.session_id \in DOMAIN sessions
          /\ sessions[row.session_id] = row

\* the operations of the Core API calls a call made, in order
OpsOf(ret) == [i \in 1..Len(ret.core_calls) |-> ret.core_calls[i].op]

\* a call that was waiting for the Core API ends in this step
WaitEnds(c) == calls[c].pc # "idle" /\ calls'[c].pc = "idle"

\* a call that does not end in this step goes on to wait for the Core API
WaitBegins(c) == calls'[c].pc # "idle" /\ calls'[c].pc # calls[c].pc

\* C25: a connection-level failure of the Core API during session creation or
\* token refresh raises the 503 service-unavailable error; the failed call was
\* made once (the call made register, or register and login, or refresh, and
\* nothing after the failure); no session is returned and no cookie set; and
\* neither the step that ends the call nor the steps that led to it create or
\* change a row.
C25_Step ==
    /\ \A c \in Calls :
          (WaitEnds(c) /\ lastReturn'.outcome = "unreachable") =>
              /\ lastReturn'.status = 503
              /\ lastReturn'.session = {}
              /\ lastReturn'.set_cookie = {}
              /\ sessions' = sessions
              /\ OpsOf(lastReturn') \in
                     {<<"register">>, <<"register", "login">>, <<"refresh">>}
    /\ \A c \in Calls :
          WaitBegins(c) =>
              \A id \in DOMAIN sessions' :
                  id \in DOMAIN sessions /\ sessions'[id] = sessions[id]

C25_ConnectionFailure503 == [][C25_Step]_vars

\* a creation failed at login on a connection failure, after register succeeded
C25_Witness ==
    /\ lastReturn.valid
    /\ lastReturn.outcome = "unreachable"
    /\ lastReturn.status = 503
    /\ OpsOf(lastReturn) = <<"register", "login">>

\* the outcomes in which the Core API answered with a non-2xx HTTP response
HttpErrorOutcomes == {"401", "500", "503"}

\* C26: a call whose Core API call was answered with a non-2xx HTTP response
\* raises 502 when it was creating a session, and when it was refreshing and
\* the response was not a 401; a call raises 503 only after a connection-level
\* failure.
C26_HttpErrorIs502 ==
    lastReturn.valid =>
        /\ (lastReturn.outcome \in HttpErrorOutcomes
              /\ OpsOf(lastReturn)[1] = "register") => lastReturn.status = 502
        /\ (lastReturn.outcome \in HttpErrorOutcomes \ {"401"}
              /\ OpsOf(lastReturn)[1] = "refresh") => lastReturn.status = 502
        /\ lastReturn.status = 503 => lastReturn.outcome = "unreachable"

\* C27: token refresh is serialized per session: no two calls of
\* get_or_create_session are waiting at the same time for a refresh they sent
\* to the Core API with the same refresh token.
C27_RefreshSerialized ==
    \A c1, c2 \in Calls :
        (c1 # c2 /\ calls[c1].pc = "refresh" /\ calls[c2].pc = "refresh") =>
            calls[c1].core_calls[1].arg # calls[c2].core_calls[1].arg

\* a call begins in this step: it looks the cookie up in the table
CallBegins(c) ==
    /\ calls[c].pc = "idle"
    /\ calls'[c].pc # "idle" \/ lastReturn' # lastReturn

\* C28: a call with no session cookie, or with a cookie that matches no row,
\* sends register for a new identity; when it returns it has sent register and
\* login for that identity, its row is new in the table, and the new session_id
\* is set as the cookie.  A call that returns a session that was in the table
\* before, fresh or refreshed, sets no cookie and returns the session_id that
\* was presented.
C28_Step ==
    /\ \A c \in Calls, cookie \in CookieValues :
          (/\ CallBegins(c)
           /\ cookie = None \/ cookie \notin DOMAIN sessions
           /\ calls'[c].cookie = cookie
           /\ calls'[c].pc # "idle") =>
              /\ calls'[c].pc = "register"
              /\ calls'[c].found = {}
              /\ calls'[c].session_id \notin DOMAIN sessions
              /\ calls'[c].core_calls =
                     <<core_call("register", email_of(calls'[c].session_id))>>
    /\ CallEnds =>
          LET ret == lastReturn'
          IN  /\ ret.found = {} => OpsOf(ret)[1] = "register"
              /\ (ret.found = {} /\ ret.status = 0) =>
                    \E session \in ret.session :
                        /\ ret.session = {session}
                        /\ ret.core_calls =
                               <<core_call("register", session.core_api_email),
                                 core_call("login", session.core_api_email)>>
                        /\ session.core_api_email = email_of(session.session_id)
                        /\ session.session_id \notin DOMAIN sessions
                        /\ session.session_id \in DOMAIN sessions'
                        /\ sessions'[session.session_id] = session
                        /\ session.session_id # ret.cookie
                        /\ ret.set_cookie = {session.session_id}
              /\ \A session \in ret.session :
                    session.session_id \in DOMAIN sessions =>
                        /\ ret.set_cookie = {}
                        /\ session.session_id = ret.cookie

C28_CookieOnCreation == [][C28_Step]_vars

\* a call that presented a cookie matching no row returned a new session and
\* set its cookie
C28_Witness ==
    /\ lastReturn.valid
    /\ lastReturn.status = 0
    /\ lastReturn.cookie = "unknown"
    /\ lastReturn.found = {}
    /\ \E session \in lastReturn.session :
          lastReturn.set_cookie = {session.session_id}

(***************************************************************************)
(* Further properties of the rate limiter                                  *)
(***************************************************************************)

\* slot r's request is answered in this step after its Core API call succeeded
AnsweredAfterSuccess(r) ==
    /\ pc[r] = "upstream"
    /\ pc'[r] = "idle"
    /\ response'.upstream = "ok"

\* C29: an allowed transcribe or analyze request whose Core API call succeeds is
\* answered with the upstream's success status, 202 for transcribe and 200 for
\* analyze, and its entry, with the request's action, session and the address
\* used for the check, is in the committed ledger, which the answer leaves as
\* it is.
C29_Step ==
    \A r \in Reqs :
        AnsweredAfterSuccess(r) =>
            /\ response'.status = IF req[r].action = "transcribe" THEN 202 ELSE 200
            /\ ledger' = ledger
            /\ CopiesIn(EntryOf(req[r]), ledger') >= 1

C29_SuccessCompletes == [][C29_Step]_vars

\* the rows of db of an action with created_at in [t - window, t]
InClosedWindow(db, action, t, window) ==
    {e \in BagToSet(db) :
        e.action = action /\ e.created_at >= t - window /\ e.created_at <= t}

\* the four counts of a call over the closed windows, in the order of the tiers
ClosedWindowCounts(db, c) ==
    <<Rows(db, {e \in InClosedWindow(db, c.action, c.at, HOUR) :
                   e.session_id = c.session_id}),
      Rows(db, {e \in InClosedWindow(db, c.action, c.at, DAY) :
                   e.session_id = c.session_id}),
      Rows(db, {e \in InClosedWindow(db, c.action, c.at, DAY) :
                   e.ip_address = c.ip_address}),
      Rows(db, InClosedWindow(db, c.action, c.at, DAY))>>

\* C30: a tier counts exactly the entries of the checked action and scope whose
\* created_at lies in [now - window, now]: what every check reports as
\* remaining is what these counts give, so an entry older than now - window is
\* not counted, one exactly at now - window is, and one stamped later than now
\* is not.
C30_ClosedWindow ==
    lastCheck.valid =>
        \A i \in 1..4 :
            Remaining(lastCheck.result)[i] =
                ReportedRemaining(get_limits(lastCheck.req.action)[i],
                                  ClosedWindowCounts(LedgerBefore, lastCheck.req)[i],
                                  lastCheck.result.allowed)

\* C31: the rate limit ledger is append-only: every step leaves each committed
\* entry in the ledger, as often as it was there, so the committed entries only
\* grow.
C31_Step == ledger \sqsubseteq ledger'

ExceededDayTiers == ExceededTiers \cap {2, 3, 4}

\* C32: the tie-break among exceeded tiers with equal retry_after is
\* deterministic: the result of a check is the one its ledger and inputs give,
\* and when 24-hour tiers are exceeded the denied check reports the first of
\* them in the order day, ip_day, global_day.
C32_TieBreak ==
    lastCheck.valid =>
        /\ lastCheck.result =
              check_and_increment(LedgerBefore, lastCheck.req.at,
                                  lastCheck.req.session_id,
                                  lastCheck.req.ip_address, lastCheck.req.action)
        /\ \A i \in ExceededDayTiers :
              (\A j \in ExceededDayTiers : i <= j) =>
                  /\ ~lastCheck.result.allowed
                  /\ lastCheck.result.exceeded_type = TierNames[i]
                  /\ lastCheck.result.retry_after = {DAY}

\* a check was denied with two 24-hour tiers exceeded at once
C32_Witness ==
    /\ lastCheck.valid
    /\ ~lastCheck.result.allowed
    /\ Cardinality(ExceededDayTiers) >= 2

\* the calls that are creating a session have made register alone and wait for
\* it, or have made register, seen it succeed, made login and wait for that; the
\* session they are creating is not in the table
CreationInOrder ==
    \A c \in Calls :
        /\ calls[c].pc = "register" =>
              /\ calls[c].core_calls =
                     <<core_call("register", email_of(calls[c].session_id))>>
              /\ calls[c].outcomes = <<>>
              /\ calls[c].session_id \notin DOMAIN sessions
        /\ calls[c].pc = "login" =>
              /\ calls[c].core_calls =
                     <<core_call("register", email_of(calls[c].session_id)),
                       core_call("login", email_of(calls[c].session_id))>>
              /\ calls[c].outcomes = <<"ok">>
              /\ calls[c].session_id \notin DOMAIN sessions

\* C33: during session creation register is called exactly once and before
\* login; login is called at most once and only after register succeeded; a row
\* is added to the table only by the step in which login succeeds, after both
\* calls succeeded; a creation in which either call fails ends after that call,
\* with no further call, and adds no row.
C33_Step ==
    /\ CallEnds =>
          LET ret == lastReturn'
          IN  (ret.core_calls # <<>> /\ OpsOf(ret)[1] = "register") =>
                  /\ Len(ret.outcomes) = Len(ret.core_calls)
                  /\ \/ /\ OpsOf(ret) = <<"register">>
                        /\ ret.outcomes[1] # "ok"
                     \/ /\ OpsOf(ret) = <<"register", "login">>
                        /\ ret.outcomes[1] = "ok"
                  /\ ret.status = 0 <=> ret.outcomes = <<"ok", "ok">>
                  /\ ret.status # 0 => sessions' = sessions
                  /\ ret.status = 0 =>
                        \E session \in ret.session :
                            /\ session.session_id \notin DOMAIN sessions
                            /\ sessions' = (session.session_id :> session) @@ sessions
    /\ DOMAIN sessions' \ DOMAIN sessions # {} =>
          /\ CallEnds
          /\ lastReturn'.outcomes = <<"ok", "ok">>
          /\ OpsOf(lastReturn') = <<"register", "login">>

C33_RegisterThenLogin == []CreationInOrder /\ [][C33_Step]_vars

\* a creation ended at a login the Core API rejected, after register succeeded,
\* and the session it was creating is not in the table
C33_Witness ==
    /\ lastReturn.valid
    /\ lastReturn.outcomes = <<"ok", "401">>
    /\ lastReturn.status = 502
    /\ \A id \in DOMAIN sessions :
          core_call("login", email_of(id)) # lastReturn.core_calls[2]

\* a call that was waiting for core_api.login ends in this step with a session
CreationSucceeds(c) ==
    /\ calls[c].pc = "login"
    /\ calls'[c].pc = "idle"
    /\ lastReturn'.status = 0

\* every row is stored under its session_id, and no two rows share an email
OneIdentityPerRow ==
    /\ \A id \in DOMAIN sessions : sessions[id].session_id = id
    /\ \A a, b \in DOMAIN sessions :
          a # b => sessions[a].core_api_email # sessions[b].core_api_email

\* C34: every created session has a session_id that is new to the table and
\* differs from the cookie presented, the email
\* anon-<session_id>@demo.eversaid.local, created_at = the time of creation,
\* token_expires_at = that time + 7 days and expires_at = that time +
\* SESSION_DURATION_DAYS; in every reachable state there is one row per
\* session_id and no two rows share an email.
C34_Step ==
    \A c \in Calls :
        CreationSucceeds(c) =>
            \E session \in lastReturn'.session :
                /\ session.session_id = calls[c].session_id
                /\ session.session_id \notin DOMAIN sessions
                /\ session.session_id # calls[c].cookie
                /\ \A row \in calls[c].found : session.session_id # row.session_id
                /\ session.core_api_email =
                       "anon-" \o session.session_id \o "@demo.eversaid.local"
                /\ session.created_at = now'
                /\ session.token_expires_at = now' + 7 * DAY
                /\ session.expires_at = now' + SESSION_DURATION_DAYS * DAY
                /\ sessions'[session.session_id] = session

C34_CreatedSession == []OneIdentityPerRow /\ [][C34_Step]_vars

\* the table holds three sessions, two of them created since the model started
\* and one of these later than the other
C34_Witness ==
    \E a, b \in DOMAIN sessions :
        /\ Cardinality(DOMAIN sessions) = 3
        /\ sessions[a].created_at < sessions[b].created_at
        /\ sessions[a].session_id = uuid4(1)
        /\ sessions[b].session_id = uuid4(2)

\* this step is an allowed check whose request goes no further: its commit
\* raised
CommitFailedStep ==
    /\ lastCheck' # lastCheck
    /\ lastCheck'.result.allowed
    /\ pc' = pc

\* C35: when a request fails after its check has staged an entry and before
\* the entry is committed, the entry is rolled back: the table is what it was
\* before the request, and no count that a later check can take, of any
\* action, session and IP address, has changed.
C35_Step ==
    CommitFailedStep =>
        /\ ledger' = ledger
        /\ \A action \in Actions, session_id \in SessionIds, ip_address \in IPs :
              tier_counts(ledger', now', session_id, ip_address, action)
                = tier_counts(ledger, now, session_id, ip_address, action)

LifetimeEnd(session) == session.created_at + SESSION_DURATION_DAYS * DAY

\* C36: a session is never returned by get_or_create_session later than its
\* creation time plus SESSION_DURATION_DAYS: no step changes the created_at or
\* the expires_at of a row, a call that ends returning a session ends no later
\* than that instant, and a call that looks a row up after that instant and
\* returns a session returns a new one in its place.
C36_Step ==
    /\ \A id \in DOMAIN sessions \cap DOMAIN sessions' :
          /\ sessions'[id].created_at = sessions[id].created_at
          /\ sessions'[id].expires_at = sessions[id].expires_at
          /\ sessions[id].expires_at = LifetimeEnd(sessions[id])
    /\ CallEnds =>
          LET ret == lastReturn'
          IN  /\ \A session \in ret.session : now' <= LifetimeEnd(session)
              /\ \A row \in ret.found :
                    (ret.at > LifetimeEnd(row) /\ ret.status = 0) =>
                        \E session \in ret.session :
                            session.session_id # row.session_id

C36_LifetimeCap == [][C36_Step]_vars

\* the rows of db that the ip_day tier of a check of the action at time t
\* counts for an IP address
IpDayRows(db, action, t, ip_address) ==
    LET kept == {e \in BagToSet(db) :
                    /\ e.action = action
                    /\ e.ip_address = ip_address
                    /\ e.created_at >= t - DAY}
    IN  BagCardinality([e \in kept |-> db[e]])

\* the token refresh leaves the ip_address of every stored row as it is
StoredIpKept ==
    \A id \in DOMAIN sessions, k \in 1..MaxIssued :
        refreshed(sessions[id], token_response(k), now).ip_address
            = sessions[id].ip_address

\* C37: the ip_day tier of a request is charged to the ip_address stored on
\* its session whenever that is set, whatever address the request comes from:
\* the check is made for the stored address, its ip_day tier counts the rows
\* of that address, and the row of an allowed check carries that address.
\* The stored ip_address is not changed after creation: no step changes it
\* and the token refresh, the one update of a stored row, leaves it.
C37_Step ==
    /\ \A id \in DOMAIN sessions \cap DOMAIN sessions' :
          sessions'[id].ip_address = sessions[id].ip_address
    /\ CheckStep =>
          LET call == lastCheck'.req
              res == lastCheck'.result
              stored == sessions[call.session_id].ip_address
              counted == IpDayRows(ledger, call.action, call.at, stored)
              limit == get_limits(call.action)[3]
          IN  stored # None =>
                /\ call.ip_address = stored
                /\ res.ip_day.remaining =
                      IF res.allowed THEN Max(0, limit - counted) - 1
                      ELSE Max(0, limit - counted)
                /\ res.allowed =>
                      ledger' = ledger (+) SetToBag({RateLimitEntry(
                                  call.session_id, stored, call.action, call.at)})
                /\ \A r \in Reqs :
                      (pc[r] = "idle" /\ pc'[r] = "upstream") =>
                          req'[r].ip_address = stored

C37_StoredIpCharged == []StoredIpKept /\ [][C37_Step]_vars

\* two requests of session s1 are in flight, one from the stored address and
\* one from another, and the second check counted the row of the first in
\* the ip_day tier of the stored address
C37_Witness ==
    /\ lastCheck.valid
    /\ lastCheck.result.allowed
    /\ \E r1, r2 \in Reqs :
          /\ pc[r1] = "upstream" /\ pc[r2] = "upstream"
          /\ req[r1].session_id = "s1" /\ req[r2].session_id = "s1"
          /\ req[r1].action = req[r2].action
          /\ req[r1].client_host = sessions["s1"].ip_address
          /\ req[r2].client_host # sessions["s1"].ip_address
          /\ req[r1].ip_address = req[r2].ip_address
          /\ lastCheck.req.action = req[r1].action
          /\ lastCheck.result.ip_day.remaining
                = get_limits(req[r1].action)[3]
                    - IpDayRows(ledger, req[r1].action, lastCheck.req.at,
                                sessions["s1"].ip_address)

\* C38: a call of get_or_create_session that finds a row that is not expired
\* and whose token has at least the threshold left changes nothing: it sends
\* nothing to the Core API, the table of sessions is after the call what it
\* was before, with the row found, and the call returns that row as it found
\* it, sets no cookie and issues no identity or token.
C38_Step ==
    (CallEnds /\ FoundFresh(lastReturn')) =>
        LET ret == lastReturn'
        IN  /\ ret.core_calls = <<>>
            /\ ret.outcome = "none"
            /\ sessions' = sessions
            /\ issued' = issued
            /\ ledger' = ledger
            /\ ret.status = 0
            /\ ret.set_cookie = {}
            /\ ret.session = ret.found
            /\ \A row \in ret.found :
                  /\ row.session_id \in DOMAIN sessions'
                  /\ sessions'[row.session_id] = row

C38_FreshCallChangesNothing == [][C38_Step]_vars

\* a call from another address found a row whose tokens an earlier call had
\* refreshed, and returned it as it was
C38_Witness ==
    /\ lastReturn.valid
    /\ FoundFresh(lastReturn)
    /\ lastReturn.core_calls = <<>>
    /\ \E row \in lastReturn.found :
          /\ lastReturn.session = {row}
          /\ row.access_token # StoredSession(row.session_id, row.ip_address).access_token
          /\ row.created_at < lastReturn.at
          /\ lastReturn.client_host # row.ip_address
          /\ sessions[row.session_id] = row

\* exceeded_type and retry_after of a result are both absent or both present,
\* as allowed tells
ResultShape(res) ==
    /\ res.allowed \in BOOLEAN
    /\ res.allowed => (res.exceeded_type = None /\ res.retry_after = {})
    /\ ~res.allowed =>
          /\ res.exceeded_type \in Tiers
          /\ Cardinality(res.retry_after) = 1
          /\ \A n \in res.retry_after : n \in Nat

\* C39: in every RateLimitResult, allowed = true implies that exceeded_type
\* and retry_after are both absent, and allowed = false implies that both are
\* present, with exceeded_type one of hour, day, ip_day and global_day.  The
\* results are that of the latest check and those the requests in flight hold.
C39_ResultShape ==
    /\ lastCheck.valid => ResultShape(lastCheck.result)
    /\ \A r \in Reqs : pc[r] = "upstream" => ResultShape(result[r])

\* the latest check was denied with a tier and a wait, while a request that
\* was allowed is in flight
C39_Witness ==
    /\ lastCheck.valid
    /\ ~lastCheck.result.allowed
    /\ lastCheck.result.exceeded_type \in Tiers
    /\ \E n \in lastCheck.result.retry_after : n > 0
    /\ \E r \in Reqs :
          /\ pc[r] = "upstream"
          /\ result[r].allowed
          /\ result[r].retry_after = {}

=============================================================================
